---- MODULE Spec2Model ----
(***************************************************************************)
(* Resource lifecycle of the dev-phone command (DevPhoneServer):           *)
(* provisioning in run(), the optional family sweep (deleteAll), the       *)
(* signal handlers and their shutdown sequence (onShutdown).               *)
(*                                                                         *)
(* Every remote call (list, remove, create, update) is one step: the call  *)
(* is issued, takes effect remotely and returns, or fails.  Between two    *)
(* steps of one async function the event loop may run a step of another    *)
(* (a signal handler's shutdown sequence), as at an await.                 *)
(***************************************************************************)
EXTENDS Integers, Sequences, FiniteSets, TLC

\* ------------------------------------------------------------------ bounds
\* How many remote calls of one run may fail.
MaxFail == 1
\* How many SIGINT/SIGTERM deliveries are followed once the handlers exist.
MaxSignals == 2
\* Length of the random suffix ("substring(2, 6)" allows up to 4 characters).
MaxRandLen == 1
\* How many HTTP requests the server is followed through.
MaxRequests == 2
\* How many validity windows of a token the clock is followed through.
MaxDays == 1

\* ------------------------------------------------------------------ labels
\* A label (friendlyName) is a sequence of tokens; 'dev-phone' is one token.
DP == <<"dev-phone">>

\* String.prototype.startsWith
StartsWith(s, p) == Len(p) <= Len(s) /\ SubSeq(s, 1, Len(p)) = p

\* The digits Math.random() may yield after "0.".
Digits == {5}
RandStrings == UNION {[1..n -> Digits] : n \in 1..MaxRandLen}

\* `dev-phone-${rand}`
generateRandomPhoneName(rand) == DP \o <<"-">> \o rand

\* friendlyName === null
NullLabel == <<>>

\* Labels left on the account by earlier runs: one of a run that drew the
\* shortest name, one of a run whose name extends it, one of a third session,
\* and one that is no dev-phone label.
Older0 == generateRandomPhoneName(<<5>>)
Older1 == generateRandomPhoneName(<<5, 5>>)
Older2 == generateRandomPhoneName(<<7>>)
Foreign == <<"my-app">>
PreRes == {[sid |-> 1, label |-> Older0], [sid |-> 2, label |-> Older1],
           [sid |-> 3, label |-> Older2], [sid |-> 4, label |-> Foreign]}
FirstSid == Cardinality(PreRes) + 1

\* ------------------------------------------------------------------ kinds
Kinds == {"key", "conversation", "sync", "function", "app"}

\* Optional values: undefined/null is <<>>, a value v is <<v>>.
None == <<>>
Some(v) == <<v>>

\* Phone numbers an account may hold, and one that no account holds.
AccountNumbers == {"+1555", "+1666"}
FlagNumbers == AccountNumbers \cup {"+1999"}

\* Webhook URLs: a domain (a label followed by the host suffix) and a handler.
EmptyUrl == [domain |-> <<>>, handler |-> ""]
OtherUrl == [domain |-> <<"example.com">>, handler |-> "hook"]
Url(domain, handler) == [domain |-> domain, handler |-> handler]
NoHooks == [smsUrl |-> EmptyUrl, voiceUrl |-> EmptyUrl, statusCallback |-> EmptyUrl]

\* ------------------------------------------------------------------ processes
\* 0 is run(); i >= 1 is the shutdown sequence started by the i-th signal.
Run == 0
Handlers == 1..MaxSignals
Procs == {Run} \cup Handlers

P(stage, kind, op) == [stage |-> stage, kind |-> kind, op |-> op]
Idle == P("idle", "-", "-")
Serving == P("serving", "-", "-")
Done == P("done", "-", "-")

\* ------------------------------------------------------------------ errors
\* Errors: a name, the status property (0: the error has none), the message
\* and what the message lists.  A remote call fails with a RestException
\* that carries the response's status, or with an error without status (the
\* request never got a response).
NoError == [name |-> "", status |-> 0, message |-> "", detail |-> {}]
TypeError == [name |-> "TypeError", status |-> 0, message |-> "", detail |-> {}]
TwilioCliError(message, detail) ==
    [name |-> "TwilioCliError", status |-> 0, message |-> message, detail |-> detail]
RemoteStatuses == {0, 500}
RemoteError(st) ==
    [name |-> IF st = 0 THEN "Error" ELSE "RestException", status |-> st,
     message |-> "", detail |-> {}]
RemoteErrors == {RemoteError(st) : st \in RemoteStatuses}

\* The HTTP requests a model run follows, and a request not yet made.
Requests == 1..MaxRequests
Response(st, form, value) == [status |-> st, form |-> form, value |-> value]
NoResponse == Response(0, "-", None)
NoRequest == [route |-> "-", body |-> None, at |-> "-", selectedNumber |-> {},
              unbound |-> None, res |-> NoResponse]

VARIABLES
    devPhoneName,   \* this.devPhoneName
    flags,          \* this.flags: clear, phone-number, force
    currentProfile, \* this.currentProfile.apiKey
    remote,         \* the account's resources per kind: sets of [sid, label]
    phones,         \* the account's phone numbers and their webhook fields
    nextSid,        \* the next sid the remote API hands out
    pc,             \* position of run() and of each shutdown sequence
    pending,        \* per process: the listed resources its for-loop has left
    this,           \* fields of the DevPhoneServer object (cliSettings.phoneNumber and
                    \* cliSettings.forceMode are written phoneNumber, forceMode)
    tmp,            \* locals of createConversation / createSync
    fails,          \* remote calls that have failed so far
    signals,        \* signals delivered to the installed handlers
    status,         \* running | exit0 | rejected | killed
    confirmed,      \* the answer to the clear prompt
    createLog,      \* the remote create calls issued, in order: [step, ok, label]
    tdLog,          \* per shutdown sequence: the steps it has started
    removeIssued,   \* labels of the resources a remote remove was issued for
    listIssued,     \* the sweeps that have issued their remote list: [stage, kind]
    prior,          \* the numbers' webhook fields when the command was started
    thrown,         \* the error run() has rejected with
    http,           \* the HTTP requests: route, body, handler position, response
    now             \* the clock, in seconds since the command was started

vars == <<devPhoneName, flags, currentProfile, remote, phones, nextSid, pc,
          pending, this, tmp, fails, signals, status, confirmed, createLog,
          tdLog, removeIssued, listIssued, prior, thrown, http, now>>

\* ------------------------------------------------------------------ initial state
\* The constructor: pns = [], jwt = null, apikey = {}, twimlApp = {}, the URLs
\* null, conversation and sync not yet assigned.  An object without a sid
\* property ({}) is written NoSid / 0.
NoSid == <<"", 0>>
constructor ==
    [pns |-> {}, jwt |-> None, apikey |-> Some(NoSid), twimlApp |-> Some(0),
     conversation |-> None, sync |-> None, serverless |-> None,
     voiceUrl |-> None, smsUrl |-> None, voiceOutboundUrl |-> None,
     statusCallback |-> None, phoneNumber |-> None, forceMode |-> FALSE]

\* The account a run starts on: empty of dev-phone resources, or holding what
\* earlier runs left; the second number is already configured, by someone
\* else or by the earlier dev-phone session Older2.
InitRemote(pre) == [k \in Kinds |-> pre]
\* The numbers the account holds: both, or (an account no dev-phone session
\* has used) none.
Accounts(pre) == IF pre = {} THEN {AccountNumbers, {}} ELSE {AccountNumbers}
InitPhones(pre) ==
    [n \in AccountNumbers |->
        IF n = "+1555" THEN NoHooks
        ELSE IF pre = {} THEN [smsUrl |-> OtherUrl, voiceUrl |-> OtherUrl,
                               statusCallback |-> EmptyUrl]
        ELSE [smsUrl |-> Url(Older2, "sms"), voiceUrl |-> Url(Older2, "voice"),
              statusCallback |-> Url(Older2, "status")]]

Init ==
    /\ devPhoneName \in {generateRandomPhoneName(r) : r \in RandStrings}
    /\ flags \in {f \in [clear : BOOLEAN, force : BOOLEAN,
                         phoneNumber : {None} \cup {Some(n) : n \in FlagNumbers}] :
                    f.force => f.phoneNumber = Some("+1666")}
    /\ currentProfile \in {[apiKey |-> <<"AC", 0>>], [apiKey |-> <<"SK", 0>>]}
    /\ \E pre \in {{}, PreRes} :
        /\ remote = InitRemote(pre)
        /\ \E numbers \in Accounts(pre) :
              phones = [n \in numbers |-> InitPhones(pre)[n]]
    /\ nextSid = FirstSid
    /\ pc = [p \in Procs |-> IF p = Run THEN P("validate", "-", "-") ELSE Idle]
    /\ pending = [p \in Procs |-> {}]
    /\ this = constructor
    /\ tmp = [service |-> 0, conversation |-> 0]
    /\ fails = 0
    /\ signals = 0
    /\ status = "running"
    /\ confirmed = FALSE
    /\ createLog = <<>>
    /\ tdLog = [h \in Handlers |-> <<>>]
    /\ removeIssued = {}
    /\ listIssued = {}
    /\ prior = phones
    /\ thrown = NoError
    /\ http = [q \in Requests |-> NoRequest]
    /\ now = 0

\* ------------------------------------------------------------------ helpers
\* A remote call fails (the error budget of the run allows it) or succeeds.
Fails == fails < MaxFail /\ fails' = fails + 1
Succeeds == fails' = fails

\* Process p moves to position pos; a shutdown sequence records each step
\* (each destroy call, the unbind) as it starts it.
Goto(p, pos) ==
    /\ UNCHANGED thrown
    /\ pc' = [pc EXCEPT ![p] = pos]
    /\ tdLog' = IF p \in Handlers /\ pos.stage = "shutdown" /\ pos.op \in {"list", "unbind"}
                THEN [tdLog EXCEPT ![p] = Append(@, pos.kind)]
                ELSE tdLog

\* An error leaves run() uncaught: the command rejects, no server starts.
Reject(e) ==
    /\ status' = "rejected"
    /\ thrown' = e
    /\ UNCHANGED <<pc, tdLog>>

\* The friendlyName option of the remote create calls: this.devPhoneName; the
\* variant passes the family prefix.  The creates of the participant, of
\* the CallLog map, the deploy and the bind pass no friendlyName.
friendlyNameFamily == DP
friendlyName == devPhoneName
CreateOptions(step, op) ==
    IF step \in {"key", "app"}
       \/ (step \in {"conversation", "sync"} /\ op \in {"create", "conversation"})
    THEN friendlyName ELSE NullLabel

\* throw new TwilioCliError(...) in validatePropsAndFlags: nothing catches
\* it, run() rejects.  In the variant the error is caught and logged inside
\* validatePropsAndFlags, as the error of the port flag is, and run() goes on.
RefuseLogged(e) ==
    /\ thrown' = e
    /\ pc' = [pc EXCEPT ![Run] = P("provision", "key", "begin")]
    /\ UNCHANGED <<status, tdLog>>
Refuse(e) == Reject(e)

LogCreate(step, ok) ==
    createLog' = Append(createLog, [step |-> step, ok |-> ok,
                                    label |-> CreateOptions(step, pc[Run].op)])

\* reformatTwilioPns: keeps phoneNumber, smsUrl, voiceUrl of a listed number
\* (friendlyName and sid are not modelled) and drops every other field.
RawNumber(n) == [phoneNumber |-> n, smsUrl |-> phones[n].smsUrl,
                 voiceUrl |-> phones[n].voiceUrl,
                 statusCallback |-> phones[n].statusCallback]
reformatTwilioPnsWithoutUrls(raw) ==
    {[phoneNumber |-> r.phoneNumber, smsUrl |-> EmptyUrl, voiceUrl |-> EmptyUrl] : r \in raw}
reformatTwilioPns(raw) ==
    {[phoneNumber |-> r.phoneNumber, smsUrl |-> r.smsUrl, voiceUrl |-> r.voiceUrl] : r \in raw}

\* incomingPhoneNumbers.list({phoneNumber})
ListNumbers(number) == {RawNumber(n) : n \in {m \in DOMAIN phones : m = number}}

\* isSmsUrlSet / isVoiceUrlSet (utils/phone-number-utils)
isUrlSet(url) == url # EmptyUrl

\* ------------------------------------------------------------------ validatePropsAndFlags
validatePropsAndFlags ==
    /\ status = "running"
    /\ pc[Run] = P("validate", "-", "-")
    /\ UNCHANGED <<devPhoneName, prior, http, now, flags, currentProfile, remote, phones, nextSid,
                   pending, tmp, signals, confirmed, createLog, removeIssued,
                   listIssued>>
    /\ \/ /\ flags.phoneNumber = None
          /\ this' = [this EXCEPT !.forceMode = flags.force]
          /\ Succeeds
          /\ Goto(Run, P("provision", "key", "begin"))
          /\ UNCHANGED status
       \/ /\ flags.phoneNumber # None
          /\ Fails
          /\ this' = [this EXCEPT !.forceMode = flags.force]
          /\ \E e \in RemoteErrors : Reject(e)
       \/ /\ flags.phoneNumber # None
          /\ Succeeds
          /\ LET pns == ListNumbers(flags.phoneNumber[1])
                 first == CHOOSE r \in pns : TRUE
                 pnConfigAlreadySet ==
                     (IF isUrlSet(first.smsUrl) THEN {"SMS webhook URL"} ELSE {})
                     \cup (IF isUrlSet(first.voiceUrl) THEN {"Voice webhook URL"} ELSE {})
             IN  IF pns = {}
                 THEN /\ this' = [this EXCEPT !.forceMode = flags.force, !.pns = pns]
                      /\ Refuse(TwilioCliError("is not associated with your Twilio account", {}))
                 ELSE IF pnConfigAlreadySet # {} /\ ~flags.force
                 THEN /\ this' = [this EXCEPT !.forceMode = flags.force, !.pns = pns]
                      /\ Refuse(TwilioCliError("config would be overwritten", pnConfigAlreadySet))
                 ELSE /\ this' = [this EXCEPT !.forceMode = flags.force, !.pns = pns,
                                    !.phoneNumber = Some(CHOOSE r \in reformatTwilioPns({first}) : TRUE)]
                      /\ Goto(Run, P("provision", "key", "begin"))
                      /\ UNCHANGED status

\* ------------------------------------------------------------------ sweeps
\* this.currentProfile.apiKey.startsWith("SK"), and the test with the prefix
\* of an account sid.  A credential is written <<prefix, n>>: n stands for
\* the rest of the sid and for the secret that goes with it.
twilioCliIsConfiguredWithAccountSid == currentProfile.apiKey[1] = "AC"
twilioCliIsConfiguredWithApiKey == currentProfile.apiKey[1] = "SK"

\* A destroyX() that filtered on the family prefix, as a destroyAllX() does.
destroyFilterFamily == DP

\* The prefix a destroyX() filters on, and the one a destroyAllX() filters on.
destroyFilter == devPhoneName
destroyAllFilter == DP

\* friendlyName !== null && friendlyName.startsWith(prefix)
Matching(kind, prefix) ==
    {r \in remote[kind] : r.label # NullLabel /\ StartsWith(r.label, prefix)}

\* The order of the awaits in deleteAll and in onShutdown; "phone" is
\* removeAllPhoneWebhooks, resp. removePhoneWebhooks.
deleteAll == <<"conversation", "app", "key", "sync", "function", "phone">>
onShutdownAppsFirst == <<"app", "conversation", "key", "sync", "function", "phone">>
onShutdown == <<"conversation", "app", "key", "sync", "function", "phone">>

NextOf(order, kind) == order[(CHOOSE i \in DOMAIN order : order[i] = kind) + 1]

\* The order of the awaits in run() after validatePropsAndFlags, and run()
\* with createSync ahead of createConversation.
runSyncFirst == <<"key", "sync", "conversation", "function", "app", "jwt", "bind">>
run == <<"key", "conversation", "sync", "function", "app", "jwt", "bind">>

\* Where run() is when it calls the function of a step, and where it goes
\* when the function of a step has returned.
StartOf(step) ==
    CASE step \in {"conversation", "sync", "app"} -> P("provision", step, "list")
      [] step = "function" -> P("provision", "function", "deploy")
      [] step \in {"jwt", "bind"} -> P(step, "-", "-")
AfterStep(step) == StartOf(NextOf(run, step))

\* Where a process goes when the destroy call at pos returns: a create
\* function goes on to its create call, deleteAll and onShutdown to their
\* next await.
AfterSweep(pos) ==
    CASE pos.stage = "provision" -> P("provision", pos.kind, "create")
      [] pos.stage = "clear" -> P("clear", NextOf(deleteAll, pos.kind), "list")
      [] pos.stage = "shutdown" ->
            LET nxt == NextOf(onShutdown, pos.kind)
            IN  P("shutdown", nxt, IF nxt = "phone" THEN "unbind" ELSE "list")

\* Where a process goes when a remote call of a destroy function has
\* thrown: the catch block of the function logs the error and the function
\* returns.  The variant has no catch block in the destroy functions of the
\* shutdown sequence: the error leaves onShutdown at once, for the finally of
\* the signal handler.
AfterUncaught(pos) == IF pos.stage = "shutdown" THEN Done ELSE AfterSweep(pos)
AfterCaught(pos) == AfterSweep(pos)

\* destroyX / destroyAllX up to the filter: the early return of the two
\* credential sweeps, the remote list, the filter on the label prefix.  A
\* failed list is caught and logged, the function returns.
DestroyList(p) ==
    LET pos == pc[p]
        prefix == IF pos.stage = "clear" THEN destroyAllFilter ELSE destroyFilter
        matched == Matching(pos.kind, prefix)
    IN  /\ status = "running"
        /\ pos.stage \in {"provision", "clear", "shutdown"}
        /\ pos.kind \in Kinds
        /\ pos.op = "list"
        /\ UNCHANGED <<devPhoneName, prior, http, now, flags, currentProfile, remote, phones, nextSid,
                       this, tmp, signals, status, confirmed, createLog, removeIssued>>
        /\ \/ /\ pos.kind = "key" /\ twilioCliIsConfiguredWithApiKey
              /\ Succeeds
              /\ UNCHANGED <<pending, listIssued>>
              /\ Goto(p, AfterSweep(pos))
           \/ /\ ~(pos.kind = "key" /\ twilioCliIsConfiguredWithApiKey)
              /\ Succeeds
              /\ listIssued' = listIssued \cup {[stage |-> pos.stage, kind |-> pos.kind]}
              /\ pending' = [pending EXCEPT ![p] = matched]
              /\ Goto(p, IF matched = {} THEN AfterSweep(pos)
                         ELSE P(pos.stage, pos.kind, "remove"))
           \/ /\ ~(pos.kind = "key" /\ twilioCliIsConfiguredWithApiKey)
              /\ Fails
              /\ listIssued' = listIssued \cup {[stage |-> pos.stage, kind |-> pos.kind]}
              /\ UNCHANGED pending
              /\ Goto(p, AfterCaught(pos))

\* The for-loop of destroyX / destroyAllX: one remote remove per listed
\* resource.  The loop sits inside the try: a failed remove (a remote error,
\* or the resource is already gone) ends the whole loop.
DestroyRemove(p) ==
    LET pos == pc[p]
    IN  /\ status = "running"
        /\ pos.stage \in {"provision", "clear", "shutdown"}
        /\ pos.kind \in Kinds
        /\ pos.op = "remove"
        /\ UNCHANGED <<devPhoneName, prior, http, now, flags, currentProfile, phones, nextSid,
                       this, tmp, signals, status, confirmed, createLog>>
        /\ \E r \in pending[p] :
            /\ removeIssued' = removeIssued \cup {r.label}
            /\ UNCHANGED listIssued
            /\ \/ /\ r \in remote[pos.kind]
                  /\ Succeeds
                  /\ remote' = [remote EXCEPT ![pos.kind] = @ \ {r}]
                  /\ pending' = [pending EXCEPT ![p] = @ \ {r}]
                  /\ Goto(p, IF pending[p] = {r} THEN AfterSweep(pos) ELSE pos)
               \/ /\ r \in remote[pos.kind]
                  /\ Fails
                  /\ UNCHANGED remote
                  /\ pending' = [pending EXCEPT ![p] = {}]
                  /\ Goto(p, AfterCaught(pos))
               \/ /\ r \notin remote[pos.kind]
                  /\ Succeeds
                  /\ UNCHANGED remote
                  /\ pending' = [pending EXCEPT ![p] = {}]
                  /\ Goto(p, AfterCaught(pos))

\* ------------------------------------------------------------------ the credential
\* Where run() goes once this.apikey is assigned.
AfterKey == IF flags.clear THEN P("confirm", "-", "-") ELSE AfterStep("key")

\* What reuseOrCreateApiKey returns when newKeys.create has thrown: the catch
\* block logs and the function ends without a return value.  The variant
\* returns an object without a sid.
createApiKeyCaughtEmptyObject == Some(NoSid)
createApiKeyCaught == None

\* reuseOrCreateApiKey, up to its first await: the profile's key is reused
\* without a remote call, or destroyApiKeys is called.
reuseOrCreateApiKey ==
    /\ status = "running"
    /\ pc[Run] = P("provision", "key", "begin")
    /\ UNCHANGED <<devPhoneName, prior, http, now, flags, currentProfile, remote, phones, nextSid,
                   pending, tmp, fails, signals, status, confirmed, createLog,
                   removeIssued,
                   listIssued>>
    /\ IF twilioCliIsConfiguredWithApiKey
       THEN /\ this' = [this EXCEPT !.apikey = Some(currentProfile.apiKey)]
            /\ Goto(Run, AfterKey)
       ELSE /\ UNCHANGED this
            /\ Goto(Run, P("provision", "key", "list"))

\* newKeys.create: the key's sid (an "SK" sid) replaces the profile's
\* identifier; a failure is caught and reuseOrCreateApiKey returns undefined.
createApiKey ==
    /\ status = "running"
    /\ pc[Run] = P("provision", "key", "create")
    /\ UNCHANGED <<devPhoneName, prior, http, now, flags, phones, pending, tmp, signals, status,
                   confirmed, removeIssued,
                   listIssued>>
    /\ \/ /\ Succeeds
          /\ remote' = [remote EXCEPT !["key"] = @ \cup {[sid |-> nextSid, label |-> friendlyName]}]
          /\ nextSid' = nextSid + 1
          /\ currentProfile' = [apiKey |-> <<"SK", nextSid>>]
          /\ this' = [this EXCEPT !.apikey = Some(<<"SK", nextSid>>)]
          /\ LogCreate("key", TRUE)
       \/ /\ Fails
          /\ this' = [this EXCEPT !.apikey = createApiKeyCaught]
          /\ LogCreate("key", FALSE)
          /\ UNCHANGED <<remote, nextSid, currentProfile>>
    /\ Goto(Run, AfterKey)

\* ------------------------------------------------------------------ clear
\* The confirmation prompt of the clear flag.
confirm ==
    /\ status = "running"
    /\ pc[Run] = P("confirm", "-", "-")
    /\ UNCHANGED <<devPhoneName, prior, http, now, flags, currentProfile, remote, phones, nextSid,
                   pending, this, tmp, fails, signals, status, createLog, removeIssued,
                   listIssued>>
    /\ \E deleteAllConfirmation \in BOOLEAN :
        /\ confirmed' = deleteAllConfirmation
        /\ Goto(Run, IF deleteAllConfirmation THEN P("clear", deleteAll[1], "list")
                     ELSE AfterStep("key"))

\* url.startsWith('https://dev-phone')
IsDevPhoneUrl(url) == StartsWith(url.domain, DP)

\* removeAllPhoneWebhooks: lists the numbers, keeps those whose SMS and voice
\* URLs both point at a dev-phone backend, and resets each (removePhoneWebhooks).
removeAllPhoneWebhooks ==
    /\ status = "running"
    /\ pc[Run].stage = "clear" /\ pc[Run].kind = "phone"
    /\ UNCHANGED <<devPhoneName, prior, http, now, flags, currentProfile, remote, nextSid, this, tmp,
                   signals, status, confirmed, createLog, removeIssued,
                   listIssued>>
    /\ \/ /\ pc[Run].op = "list"
          /\ Succeeds
          /\ LET numbersDevPhone == {n \in DOMAIN phones :
                                        IsDevPhoneUrl(phones[n].smsUrl)
                                        /\ IsDevPhoneUrl(phones[n].voiceUrl)}
             IN  /\ pending' = [pending EXCEPT ![Run] = numbersDevPhone]
                 /\ Goto(Run, IF numbersDevPhone = {} THEN AfterStep("key")
                              ELSE P("clear", "phone", "remove"))
          /\ UNCHANGED phones
       \/ /\ pc[Run].op = "list"
          /\ Fails
          /\ UNCHANGED <<pending, phones>>
          /\ Goto(Run, AfterStep("key"))
       \/ /\ pc[Run].op = "remove"
          /\ \E n \in pending[Run] :
              \/ /\ Succeeds
                 /\ phones' = [phones EXCEPT ![n] = NoHooks]
                 /\ pending' = [pending EXCEPT ![Run] = @ \ {n}]
                 /\ Goto(Run, IF pending[Run] = {n} THEN AfterStep("key")
                              ELSE pc[Run])
              \/ /\ Fails
                 /\ UNCHANGED phones
                 /\ pending' = [pending EXCEPT ![Run] = {}]
                 /\ Goto(Run, AfterStep("key"))

\* ------------------------------------------------------------------ createConversation
\* The three remote creates of createConversation (service, conversation,
\* participant).  Any failure is caught: the function returns undefined.
createConversation ==
    /\ status = "running"
    /\ pc[Run].stage = "provision" /\ pc[Run].kind = "conversation"
    /\ UNCHANGED <<devPhoneName, prior, http, now, flags, currentProfile, phones, pending, signals,
                   status, confirmed, removeIssued,
                   listIssued>>
    /\ \/ /\ pc[Run].op = "create"
          /\ Succeeds
          /\ remote' = [remote EXCEPT !["conversation"] =
                            @ \cup {[sid |-> nextSid, label |-> friendlyName]}]
          /\ tmp' = [tmp EXCEPT !.service = nextSid]
          /\ nextSid' = nextSid + 1
          /\ LogCreate("conversation", TRUE)
          /\ UNCHANGED this
          /\ Goto(Run, P("provision", "conversation", "conversation"))
       \/ /\ pc[Run].op = "conversation"
          /\ Succeeds
          /\ tmp' = [tmp EXCEPT !.conversation = nextSid]
          /\ nextSid' = nextSid + 1
          /\ LogCreate("conversation", TRUE)
          /\ UNCHANGED <<remote, this>>
          /\ Goto(Run, P("provision", "conversation", "participant"))
       \/ /\ pc[Run].op = "participant"
          /\ Succeeds
          /\ this' = [this EXCEPT !.conversation =
                          Some([serviceSid |-> tmp.service, sid |-> tmp.conversation])]
          /\ LogCreate("conversation", TRUE)
          /\ UNCHANGED <<remote, tmp, nextSid>>
          /\ Goto(Run, AfterStep("conversation"))
       \/ /\ pc[Run].op \in {"create", "conversation", "participant"}
          /\ Fails
          /\ this' = [this EXCEPT !.conversation = None]
          /\ LogCreate("conversation", FALSE)
          /\ UNCHANGED <<remote, tmp, nextSid>>
          /\ Goto(Run, AfterStep("conversation"))

\* ------------------------------------------------------------------ createSync
\* The two remote creates of createSync (service, the CallLog map).  Any
\* failure is caught: the function returns undefined.
createSync ==
    /\ status = "running"
    /\ pc[Run].stage = "provision" /\ pc[Run].kind = "sync"
    /\ UNCHANGED <<devPhoneName, prior, http, now, flags, currentProfile, phones, pending, signals,
                   status, confirmed, removeIssued,
                   listIssued>>
    /\ \/ /\ pc[Run].op = "create"
          /\ Succeeds
          /\ remote' = [remote EXCEPT !["sync"] =
                            @ \cup {[sid |-> nextSid, label |-> friendlyName]}]
          /\ tmp' = [tmp EXCEPT !.service = nextSid]
          /\ nextSid' = nextSid + 1
          /\ LogCreate("sync", TRUE)
          /\ UNCHANGED this
          /\ Goto(Run, P("provision", "sync", "map"))
       \/ /\ pc[Run].op = "map"
          /\ Succeeds
          /\ this' = [this EXCEPT !.sync = Some(tmp.service)]
          /\ LogCreate("sync", TRUE)
          /\ UNCHANGED <<remote, tmp, nextSid>>
          /\ Goto(Run, AfterStep("sync"))
       \/ /\ pc[Run].op \in {"create", "map"}
          /\ Fails
          /\ this' = [this EXCEPT !.sync = None]
          /\ LogCreate("sync", FALSE)
          /\ UNCHANGED <<remote, tmp, nextSid>>
          /\ Goto(Run, AfterStep("sync"))

\* ------------------------------------------------------------------ createFunction
\* Building the env of the deploy reads this.sync.sid and
\* this.conversation.sid: a TypeError when either is undefined.
createFunctionThrows == this.sync = None \/ this.conversation = None

\* deployServerless (utils/create-serverless-util): deploys into the service
\* named after the session, creating it when there is none, and returns its
\* sid and domain; a failed deploy throws.
deployServerless(sid) ==
    LET existing == {r \in remote["function"] : r.label = devPhoneName}
    IN  IF existing = {}
        THEN [remote EXCEPT !["function"] = @ \cup {[sid |-> sid, label |-> devPhoneName]}]
        ELSE remote
DeployedDomain == devPhoneName \o <<"twil.io">>

createFunction ==
    /\ status = "running"
    /\ pc[Run] = P("provision", "function", "deploy")
    /\ UNCHANGED <<devPhoneName, prior, http, now, flags, currentProfile, phones, pending, tmp,
                   signals, confirmed, removeIssued,
                   listIssued>>
    /\ \/ /\ createFunctionThrows
          /\ Succeeds
          /\ UNCHANGED <<remote, nextSid, this, createLog>>
          /\ Reject(TypeError)
       \/ /\ ~createFunctionThrows
          /\ Succeeds
          /\ remote' = deployServerless(nextSid)
          /\ nextSid' = nextSid + 1
          /\ this' = [this EXCEPT
                        !.serverless = Some((CHOOSE r \in remote'["function"] :
                                                r.label = devPhoneName).sid),
                        !.voiceUrl = Some(Url(DeployedDomain, "incoming-call")),
                        !.voiceOutboundUrl = Some(Url(DeployedDomain, "outbound-call")),
                        !.smsUrl = Some(Url(DeployedDomain, "incoming-message")),
                        !.statusCallback = Some(Url(DeployedDomain, "sync-call-history"))]
          /\ LogCreate("function", TRUE)
          /\ Goto(Run, AfterStep("function"))
          /\ UNCHANGED status
       \/ /\ ~createFunctionThrows
          /\ Fails
          /\ LogCreate("function", FALSE)
          /\ UNCHANGED <<remote, nextSid, this>>
          /\ \E e \in RemoteErrors : Reject(e)

\* ------------------------------------------------------------------ createTwimlApp
\* What createTwimlApp returns when applications.create has thrown: nothing.
\* The variant returns an object without a sid.
createTwimlAppCaughtEmptyObject == Some(0)
createTwimlAppCaught == None

\* applications.create; a failure is caught and the function returns undefined.
createTwimlApp ==
    /\ status = "running"
    /\ pc[Run] = P("provision", "app", "create")
    /\ UNCHANGED <<devPhoneName, prior, http, now, flags, currentProfile, phones, pending, tmp,
                   signals, status, confirmed, removeIssued,
                   listIssued>>
    /\ \/ /\ Succeeds
          /\ remote' = [remote EXCEPT !["app"] = @ \cup {[sid |-> nextSid, label |-> friendlyName]}]
          /\ nextSid' = nextSid + 1
          /\ this' = [this EXCEPT !.twimlApp = Some(nextSid)]
          /\ LogCreate("app", TRUE)
       \/ /\ Fails
          /\ this' = [this EXCEPT !.twimlApp = createTwimlAppCaught]
          /\ LogCreate("app", FALSE)
          /\ UNCHANGED <<remote, nextSid>>
    /\ Goto(Run, AfterStep("app"))

\* ------------------------------------------------------------------ createJwt
\* createJwt reads this.conversation.serviceSid, this.twimlApp.sid,
\* this.sync.sid and this.apikey.sid: a TypeError when one of the four
\* objects is undefined.
createJwtThrows ==
    \/ this.conversation = None
    \/ this.twimlApp = None
    \/ this.sync = None
    \/ this.apikey = None

\* The options and grants of the AccessToken; iat is the time of signing.  A
\* grant is written [grant, target, incomingAllow]; incomingAllow is an
\* option of the voice grant only.
TokenTtlOneHour == 60 * 60
TokenTtl == 24 * 60 * 60
Grant(grant, target, incomingAllow) ==
    [grant |-> grant, target |-> target, incomingAllow |-> incomingAllow]
Token == [identity |-> devPhoneName, ttl |-> TokenTtl, iat |-> now,
          key |-> this.apikey[1],
          grants |-> {Grant("chat", this.conversation[1].serviceSid, FALSE),
                      Grant("voice", this.twimlApp[1], TRUE),
                      Grant("sync", this.sync[1], FALSE)}]

createJwt ==
    /\ status = "running"
    /\ pc[Run] = P("jwt", "-", "-")
    /\ UNCHANGED <<devPhoneName, prior, http, now, flags, currentProfile, remote, phones, nextSid,
                   pending, tmp, fails, signals, confirmed, createLog, removeIssued,
                   listIssued>>
    /\ IF createJwtThrows
       THEN /\ UNCHANGED this
            /\ Reject(TypeError)
       ELSE /\ this' = [this EXCEPT !.jwt = Some(Token)]
            /\ Goto(Run, AfterStep("jwt"))
            /\ UNCHANGED status

\* ------------------------------------------------------------------ the phone number
\* updatePhoneWebhooks (utils/phone-number-utils): without a number nothing is
\* called; otherwise the number's three webhook fields are updated remotely
\* and the binding is returned, holding the configuration captured before
\* the update; a failed update throws.
SessionHooks == [smsUrl |-> this.smsUrl[1], voiceUrl |-> this.voiceUrl[1],
                 statusCallback |-> this.statusCallback[1]]
updatePhoneWebhooks(number) == [phones EXCEPT ![number] = SessionHooks]
updatePhoneWebhooksReturns(binding) == binding

\* removePhoneWebhooks (utils/phone-number-utils): without a number nothing is
\* called; otherwise the number's three webhook fields are reset to empty.
removePhoneWebhooks(number) == [phones EXCEPT ![number] = NoHooks]

\* The end of run(): the bind of the number given by flag, then (in the same
\* turn of the event loop) the signal handlers are installed and the server
\* listens.
bindAndListen ==
    /\ status = "running"
    /\ pc[Run] = P("bind", "-", "-")
    /\ UNCHANGED <<devPhoneName, prior, http, now, flags, currentProfile, remote, nextSid, pending,
                   tmp, signals, confirmed, removeIssued,
                   listIssued>>
    /\ \/ /\ this.phoneNumber = None
          /\ Succeeds
          /\ UNCHANGED <<phones, this, createLog, status>>
          /\ Goto(Run, Serving)
       \/ /\ this.phoneNumber # None
          /\ Succeeds
          /\ LET n == this.phoneNumber[1].phoneNumber
             IN  /\ phones' = updatePhoneWebhooks(n)
                 /\ this' = [this EXCEPT !.phoneNumber =
                                Some(updatePhoneWebhooksReturns(this.phoneNumber[1]))]
          /\ LogCreate("bind", TRUE)
          /\ UNCHANGED status
          /\ Goto(Run, Serving)
       \/ /\ this.phoneNumber # None
          /\ Fails
          /\ LogCreate("bind", FALSE)
          /\ UNCHANGED <<phones, this>>
          /\ \E e \in RemoteErrors : Reject(e)

\* ------------------------------------------------------------------ signals
\* SIGINT or SIGTERM.  Before run() has installed its handlers the signal has
\* its default disposition and ends the process at once.  Afterwards each
\* delivery runs the handler, which calls onShutdown().
Signal ==
    /\ status = "running"
    /\ UNCHANGED <<devPhoneName, prior, http, now, flags, currentProfile, remote, phones, nextSid,
                   pending, this, tmp, fails, confirmed, createLog, removeIssued,
                   listIssued>>
    /\ \/ /\ pc[Run] # Serving
          /\ status' = "killed"
          /\ UNCHANGED <<pc, tdLog, signals, thrown>>
       \/ /\ pc[Run] = Serving
          /\ signals < MaxSignals
          /\ signals' = signals + 1
          /\ Goto(signals + 1, P("shutdown", onShutdown[1], "list"))
          /\ UNCHANGED status

\* How the process ends when onShutdown() has rejected: the handler's
\* finally() calls process.exit(0) all the same.  With then() in its place
\* the rejection would be unhandled and end the process with status 1.
onShutdownRejectedUnhandled == "exit1"
onShutdownRejected == "exit0"

\* The last await of onShutdown, removePhoneWebhooks, and the handler's
\* finally: process.exit(0), whether or not the unbind succeeded.
unbindAndExit(h) ==
    /\ status = "running"
    /\ pc[h] = P("shutdown", "phone", "unbind")
    /\ UNCHANGED <<devPhoneName, prior, http, now, flags, currentProfile, remote, nextSid, pending,
                   this, tmp, signals, confirmed, createLog, removeIssued,
                   listIssued>>
    /\ \/ /\ this.phoneNumber = None
          /\ Succeeds
          /\ UNCHANGED phones
          /\ status' = "exit0"
       \/ /\ this.phoneNumber # None
          /\ Succeeds
          /\ phones' = removePhoneWebhooks(this.phoneNumber[1].phoneNumber)
          /\ status' = "exit0"
       \/ /\ this.phoneNumber # None
          /\ Fails
          /\ UNCHANGED phones
          /\ status' = onShutdownRejected
    /\ Goto(h, Done)

\* ------------------------------------------------------------------ the gateway
\* What the handlers of the express app leave alone.
lifecycleVars == <<devPhoneName, flags, currentProfile, remote, nextSid, pc, pending,
                   tmp, signals, status, confirmed, createLog, tdLog, removeIssued, listIssued,
                   prior, thrown>>

\* req.body.phoneNumber of a /choose-phone-number request: absent, or a number.
Bodies == {None} \cup {Some(n) : n \in FlagNumbers}

\* The server is listening and request q is the next one to arrive.
Accepting(q) ==
    /\ status = "running"
    /\ pc[Run] = Serving
    /\ http[q] = NoRequest
    /\ \A o \in Requests : o < q => http[o] # NoRequest

\* Request q is in the handler of route, which awaits the remote call at.
Awaiting(q, route, at) ==
    /\ status = "running"
    /\ http[q].route = route
    /\ http[q].at = at

Request(route, body, at) == [NoRequest EXCEPT !.route = route, !.body = body, !.at = at]
Respond(q, res) == http' = [http EXCEPT ![q].at = "done", ![q].res = res]

\* res.status(err.status ? err.status : 400).send({ error: err })
ErrorResponse(err) == Response(IF err.status # 0 THEN err.status ELSE 400, "{error}", Some(err))
\* res.status(400).send(err)
BareErrorResponse(err) == Response(400, "err", Some(err))
\* res.json(body)
Json(form, value) == Response(200, form, value)

\* incomingPhoneNumbers.list() / list({ phoneNumber, limit: 20 }); without a
\* phoneNumber the filter is absent and every number of the account is listed.
ListAllNumbers == {RawNumber(n) : n \in DOMAIN phones}
ListFiltered(body) == IF body = None THEN ListAllNumbers ELSE ListNumbers(body[1])

\* GET /phone-numbers: the cached list when there is one, else a remote list
\* that is cached.
phoneNumbers(q) ==
    /\ UNCHANGED lifecycleVars
    /\ UNCHANGED <<phones, now>>
    /\ \/ /\ Accepting(q)
          /\ this.pns = {}
          /\ http' = [http EXCEPT ![q] = Request("/phone-numbers", None, "list")]
          /\ UNCHANGED <<this, fails>>
       \/ /\ Accepting(q)
          /\ this.pns # {}
          /\ http' = [http EXCEPT ![q] =
                        [Request("/phone-numbers", None, "done") EXCEPT
                            !.res = Json("{phone-numbers}", Some(reformatTwilioPns(this.pns)))]]
          /\ UNCHANGED <<this, fails>>
       \/ /\ Awaiting(q, "/phone-numbers", "list")
          /\ Succeeds
          /\ this' = [this EXCEPT !.pns = ListAllNumbers]
          /\ Respond(q, Json("{phone-numbers}", Some(reformatTwilioPns(ListAllNumbers))))
       \/ /\ Awaiting(q, "/phone-numbers", "list")
          /\ Fails
          /\ UNCHANGED this
          /\ \E err \in RemoteErrors : Respond(q, ErrorResponse(err))

\* POST /send-sms: messages.create with the body, from and to of the request.
sendSms(q) ==
    /\ UNCHANGED lifecycleVars
    /\ UNCHANGED <<phones, now, this>>
    /\ \/ /\ Accepting(q)
          /\ http' = [http EXCEPT ![q] = Request("/send-sms", None, "create")]
          /\ UNCHANGED fails
       \/ /\ Awaiting(q, "/send-sms", "create")
          /\ Succeeds
          /\ Respond(q, Json("{result}", None))
       \/ /\ Awaiting(q, "/send-sms", "create")
          /\ Fails
          /\ \E err \in RemoteErrors : Respond(q, ErrorResponse(err))

\* selectedNumber.length === 1, and a test that lets several matches through.
AtLeastOneMatch(selectedNumber) == Cardinality(selectedNumber) >= 1
SingleMatch(selectedNumber) == Cardinality(selectedNumber) = 1

\* /choose-phone-number: the lookup, then for a single match the unbind of
\* the number the session holds (removePhoneWebhooks is called with
\* cliSettings.phoneNumber as it is when the lookup returns), the assignment
\* of the selected number, and the bind.  Any error is caught and sent bare
\* with status 400.
choosePhoneNumber(q) ==
    /\ UNCHANGED lifecycleVars
    /\ UNCHANGED now
    /\ \/ /\ Accepting(q)
          /\ \E body \in Bodies :
                http' = [http EXCEPT ![q] = Request("/choose-phone-number", body, "list")]
          /\ UNCHANGED <<this, phones, fails>>
       \/ /\ Awaiting(q, "/choose-phone-number", "list")
          /\ Fails
          /\ \E err \in RemoteErrors : Respond(q, BareErrorResponse(err))
          /\ UNCHANGED <<this, phones>>
       \/ /\ Awaiting(q, "/choose-phone-number", "list")
          /\ Succeeds
          /\ LET selectedNumber == reformatTwilioPns(ListFiltered(http[q].body))
             IN  IF SingleMatch(selectedNumber)
                 THEN http' = [http EXCEPT ![q].at = "unbind",
                                           ![q].selectedNumber = selectedNumber,
                                           ![q].unbound = this.phoneNumber]
                 ELSE Respond(q, Response(400, "{message}", Some("Phone number not found!")))
          /\ UNCHANGED <<this, phones>>
       \/ /\ Awaiting(q, "/choose-phone-number", "unbind")
          /\ Succeeds
          /\ phones' = IF http[q].unbound = None THEN phones
                       ELSE removePhoneWebhooks(http[q].unbound[1].phoneNumber)
          /\ this' = [this EXCEPT !.phoneNumber =
                          Some(CHOOSE r \in http[q].selectedNumber : TRUE)]
          /\ http' = [http EXCEPT ![q].at = "bind"]
       \/ /\ Awaiting(q, "/choose-phone-number", "unbind")
          /\ http[q].unbound # None
          /\ Fails
          /\ \E err \in RemoteErrors : Respond(q, BareErrorResponse(err))
          /\ UNCHANGED <<this, phones>>
       \/ /\ Awaiting(q, "/choose-phone-number", "bind")
          /\ Succeeds
          /\ LET selected == CHOOSE r \in http[q].selectedNumber : TRUE
             IN  /\ phones' = updatePhoneWebhooks(selected.phoneNumber)
                 /\ this' = [this EXCEPT !.phoneNumber =
                                Some(updatePhoneWebhooksReturns(selected))]
                 /\ Respond(q, Json("{phoneNumber,message}",
                                    Some(updatePhoneWebhooksReturns(selected))))
       \/ /\ Awaiting(q, "/choose-phone-number", "bind")
          /\ Fails
          /\ \E err \in RemoteErrors : Respond(q, BareErrorResponse(err))
          /\ UNCHANGED <<this, phones>>

\* !this.jwt, and a test that is always true.
jwtAlwaysAbsent == TRUE
jwtAbsent == this.jwt = None

\* GET /client-token: the held token, issued first when none is held.  The
\* handler makes no remote call: it runs in one turn of the event loop.
clientToken(q) ==
    /\ UNCHANGED lifecycleVars
    /\ UNCHANGED <<phones, now, fails>>
    /\ Accepting(q)
    /\ IF jwtAbsent
       THEN IF createJwtThrows
            THEN /\ UNCHANGED this
                 /\ http' = [http EXCEPT ![q] =
                               [Request("/client-token", None, "done") EXCEPT
                                   !.res = BareErrorResponse(TypeError)]]
            ELSE /\ this' = [this EXCEPT !.jwt = Some(Token)]
                 /\ http' = [http EXCEPT ![q] =
                               [Request("/client-token", None, "done") EXCEPT
                                   !.res = Json("{token}", Some(Token))]]
       ELSE /\ UNCHANGED this
            /\ http' = [http EXCEPT ![q] =
                          [Request("/client-token", None, "done") EXCEPT
                              !.res = Json("{token}", this.jwt)]]

\* A validity window of a token passes while the server is listening.
Tick ==
    /\ status = "running"
    /\ pc[Run] = Serving
    /\ now < MaxDays * TokenTtl
    /\ now' = now + TokenTtl
    /\ UNCHANGED lifecycleVars
    /\ UNCHANGED <<phones, this, fails, http>>

\* ------------------------------------------------------------------ specification
Next ==
    \/ validatePropsAndFlags
    \/ reuseOrCreateApiKey
    \/ createApiKey
    \/ confirm
    \/ removeAllPhoneWebhooks
    \/ createConversation
    \/ createSync
    \/ createFunction
    \/ createTwimlApp
    \/ createJwt
    \/ bindAndListen
    \/ Signal
    \/ \E p \in Procs : DestroyList(p)
    \/ \E p \in Procs : DestroyRemove(p)
    \/ \E h \in Handlers : unbindAndExit(h)

Spec == Init /\ [][Next]_vars

\* The same command when every remote call of a shutdown sequence returns:
\* a shutdown sequence that can take a step eventually takes one.
Teardown ==
    \E h \in Handlers : DestroyList(h) \/ DestroyRemove(h) \/ unbindAndExit(h)

LiveSpec == Init /\ [][Next]_vars /\ WF_vars(Teardown)

\* The command from its start up to the first signal: provisioning, then the
\* server and its requests.
GatewayNext ==
    \/ validatePropsAndFlags
    \/ reuseOrCreateApiKey
    \/ createApiKey
    \/ confirm
    \/ removeAllPhoneWebhooks
    \/ createConversation
    \/ createSync
    \/ createFunction
    \/ createTwimlApp
    \/ createJwt
    \/ bindAndListen
    \/ DestroyList(Run)
    \/ DestroyRemove(Run)
    \/ \E q \in Requests : phoneNumbers(q)
    \/ \E q \in Requests : sendSms(q)
    \/ \E q \in Requests : choosePhoneNumber(q)
    \/ \E q \in Requests : clientToken(q)
    \/ Tick

GatewaySpec == Init /\ [][GatewayNext]_vars

\* The command with its signal handlers and the one handler of the server
\* that binds numbers: the signal handlers do not close the server, so the
\* requests and the shutdown sequence interleave until process.exit.  The
\* run is one without the clear flag, on an account no dev-phone session has
\* used, followed up to the end of the shutdown sequence of its first signal.
DrainInit ==
    /\ Init
    /\ ~flags.clear
    /\ remote = InitRemote({})

DrainNext ==
    \/ validatePropsAndFlags
    \/ reuseOrCreateApiKey
    \/ createApiKey
    \/ createConversation
    \/ createSync
    \/ createFunction
    \/ createTwimlApp
    \/ createJwt
    \/ bindAndListen
    \/ signals = 0 /\ Signal
    \/ \E p \in Procs : DestroyList(p)
    \/ \E p \in Procs : DestroyRemove(p)
    \/ \E h \in Handlers : unbindAndExit(h)
    \/ \E q \in Requests : choosePhoneNumber(q)

DrainSpec == DrainInit /\ [][DrainNext]_vars

\* ------------------------------------------------------------------ the legacy command
\* src/plugin-dev-phone/src/commands/dev-phone.js: the earlier command.  Its
\* only flag is the phone number; it creates a conversation, a sync service,
\* the credential and a TwiML app, signs the token, installs its SIGINT
\* handler and listens.  Its create and destroy functions catch nothing: a
\* failed remote call rejects run().
legacyFrame == <<devPhoneName, flags, phones, tmp, confirmed, prior, http, now>>

LegacyInit ==
    /\ Init
    /\ ~flags.clear
    /\ ~flags.force

\* The order of the awaits in the legacy run() after validatePropsAndFlags.
legacyRun == <<"conversation", "sync", "key", "app", "jwt">>
legacyStart(step) ==
    CASE step \in {"conversation", "sync", "app"} -> P("legacy", step, "list")
      [] step = "key" -> P("legacy", "key", "begin")
      [] step = "jwt" -> P("legacy", "jwt", "-")
legacyAfter(step) == legacyStart(NextOf(legacyRun, step))

legacyValidatePropsAndFlags ==
    /\ status = "running"
    /\ pc[Run] = P("validate", "-", "-")
    /\ UNCHANGED legacyFrame
    /\ UNCHANGED <<currentProfile, remote, nextSid, pending, signals, createLog,
                   removeIssued, listIssued>>
    /\ \/ /\ flags.phoneNumber = None
          /\ Succeeds
          /\ UNCHANGED <<this, status>>
          /\ Goto(Run, legacyStart(legacyRun[1]))
       \/ /\ flags.phoneNumber # None
          /\ Fails
          /\ UNCHANGED this
          /\ \E e \in RemoteErrors : Reject(e)
       \/ /\ flags.phoneNumber # None
          /\ Succeeds
          /\ LET pns == ListNumbers(flags.phoneNumber[1])
                 first == CHOOSE r \in pns : TRUE
                 pnConfigAlreadySet ==
                     (IF isUrlSet(first.smsUrl) THEN {"SMS webhook URL"} ELSE {})
                     \cup (IF isUrlSet(first.voiceUrl) THEN {"Voice webhook URL"} ELSE {})
             IN  IF pns = {}
                 THEN /\ this' = [this EXCEPT !.pns = pns]
                      /\ Reject(TwilioCliError("is not associated with your Twilio account", {}))
                 ELSE IF pnConfigAlreadySet # {}
                 THEN /\ this' = [this EXCEPT !.pns = pns]
                      /\ Reject(TwilioCliError("config would be overwritten", pnConfigAlreadySet))
                 ELSE /\ this' = [this EXCEPT !.pns = pns,
                                    !.phoneNumber = Some(CHOOSE r \in reformatTwilioPns({first}) : TRUE)]
                      /\ Goto(Run, legacyStart(legacyRun[1]))
                      /\ UNCHANGED status

\* item.friendlyname: the listed objects have a friendlyName property and no
\* friendlyname property, so the read yields undefined.
friendlyname(r) == NullLabel

\* item.friendlyname && item.friendlyName.startsWith('dev-phone')
legacyMatching(kind) ==
    {r \in remote[kind] : friendlyname(r) # NullLabel /\ StartsWith(r.label, DP)}

\* The legacy destroyX: the remote list, the filter, one remote remove per
\* item the filter has kept.  Nothing is caught.  (destroyApiKeys is called
\* from the branch of reuseOrCreateApiKey in which the profile holds no API
\* key, so its own early return is never taken there.)
legacyDestroy ==
    LET pos == pc[Run]
    IN  /\ status = "running"
        /\ pos.stage = "legacy"
        /\ pos.op \in {"list", "remove"}
        /\ UNCHANGED legacyFrame
        /\ UNCHANGED <<currentProfile, nextSid, this, signals, createLog>>
        /\ \/ /\ pos.op = "list"
              /\ Succeeds
              /\ listIssued' = listIssued \cup {[stage |-> "legacy", kind |-> pos.kind]}
              /\ pending' = [pending EXCEPT ![Run] = legacyMatching(pos.kind)]
              /\ Goto(Run, P("legacy", pos.kind,
                             IF legacyMatching(pos.kind) = {} THEN "create" ELSE "remove"))
              /\ UNCHANGED <<remote, removeIssued, status>>
           \/ /\ pos.op = "list"
              /\ Fails
              /\ listIssued' = listIssued \cup {[stage |-> "legacy", kind |-> pos.kind]}
              /\ UNCHANGED <<remote, pending, removeIssued>>
              /\ \E e \in RemoteErrors : Reject(e)
           \/ /\ pos.op = "remove"
              /\ \E r \in pending[Run] :
                  /\ removeIssued' = removeIssued \cup {r.label}
                  /\ UNCHANGED listIssued
                  /\ \/ /\ Succeeds
                        /\ remote' = [remote EXCEPT ![pos.kind] = @ \ {r}]
                        /\ pending' = [pending EXCEPT ![Run] = @ \ {r}]
                        /\ Goto(Run, IF pending[Run] = {r} THEN P("legacy", pos.kind, "create")
                                     ELSE pos)
                        /\ UNCHANGED status
                     \/ /\ Fails
                        /\ UNCHANGED <<remote, pending>>
                        /\ \E e \in RemoteErrors : Reject(e)

\* The legacy reuseOrCreateApiKey up to its first await.
legacyReuseOrCreateApiKey ==
    /\ status = "running"
    /\ pc[Run] = P("legacy", "key", "begin")
    /\ UNCHANGED legacyFrame
    /\ UNCHANGED <<currentProfile, remote, nextSid, pending, fails, signals, status,
                   createLog, removeIssued, listIssued>>
    /\ IF twilioCliIsConfiguredWithApiKey
       THEN /\ this' = [this EXCEPT !.apikey = Some(currentProfile.apiKey)]
            /\ Goto(Run, legacyAfter("key"))
       ELSE /\ UNCHANGED this
            /\ Goto(Run, P("legacy", "key", "list"))

\* The remote create of createConversation, createSync, reuseOrCreateApiKey
\* and createTwimlApp, each with friendlyName: this.devPhoneName; the created
\* object is returned and assigned by run().
legacyCreate ==
    LET kind == pc[Run].kind
    IN  /\ status = "running"
        /\ pc[Run].stage = "legacy"
        /\ pc[Run].op = "create"
        /\ UNCHANGED legacyFrame
        /\ UNCHANGED <<pending, signals, removeIssued, listIssued>>
        /\ \/ /\ Succeeds
              /\ remote' = [remote EXCEPT ![kind] = @ \cup {[sid |-> nextSid, label |-> friendlyName]}]
              /\ nextSid' = nextSid + 1
              /\ currentProfile' = IF kind = "key" THEN [apiKey |-> <<"SK", nextSid>>]
                                   ELSE currentProfile
              /\ this' = CASE kind = "conversation" ->
                                [this EXCEPT !.conversation = Some([sid |-> nextSid])]
                           [] kind = "sync" -> [this EXCEPT !.sync = Some(nextSid)]
                           [] kind = "key" -> [this EXCEPT !.apikey = Some(<<"SK", nextSid>>)]
                           [] kind = "app" -> [this EXCEPT !.twimlApp = Some(nextSid)]
              /\ LogCreate(kind, TRUE)
              /\ Goto(Run, legacyAfter(kind))
              /\ UNCHANGED status
           \/ /\ Fails
              /\ LogCreate(kind, FALSE)
              /\ UNCHANGED <<remote, nextSid, currentProfile, this>>
              /\ \E e \in RemoteErrors : Reject(e)

\* The legacy createJwt: the identity and the three grants, no ttl option;
\* the chat grant is given the sid of the conversation.
legacyToken ==
    [identity |-> devPhoneName, iat |-> now, key |-> this.apikey[1],
     grants |-> {Grant("chat", this.conversation[1].sid, FALSE),
                 Grant("voice", this.twimlApp[1], TRUE),
                 Grant("sync", this.sync[1], FALSE)}]

\* createJwt, then (in the same turn of the event loop) the SIGINT handler is
\* installed and the server listens.
legacyCreateJwt ==
    /\ status = "running"
    /\ pc[Run] = P("legacy", "jwt", "-")
    /\ UNCHANGED legacyFrame
    /\ UNCHANGED <<currentProfile, remote, nextSid, pending, fails, signals, status,
                   createLog, removeIssued, listIssued>>
    /\ this' = [this EXCEPT !.jwt = Some(legacyToken)]
    /\ Goto(Run, Serving)

\* The identifiers the SIGINT handler can resolve that name a destroy
\* function: none.  The handler calls destroyConversations(),
\* destroyTwimlApps(), destroyApiKeys() and destroySyncs() as free
\* identifiers, while the functions are methods of the command object.
legacyHandlerScope == {}

\* SIGINT.  Before the handler is installed the signal ends the process.
\* The handler's try block throws a ReferenceError at the first call it
\* evaluates, the catch logs the message, and process.exit() follows: the
\* handler runs in one turn of the event loop and issues no remote call.
legacySigint ==
    /\ status = "running"
    /\ UNCHANGED legacyFrame
    /\ UNCHANGED <<currentProfile, remote, nextSid, pending, this, fails, createLog,
                   removeIssued, listIssued, thrown>>
    /\ \/ /\ pc[Run] # Serving
          /\ status' = "killed"
          /\ UNCHANGED <<pc, tdLog, signals>>
       \/ /\ pc[Run] = Serving
          /\ signals' = signals + 1
          /\ tdLog' = [tdLog EXCEPT ![1] =
                          IF "destroyConversations" \in legacyHandlerScope
                          THEN <<"conversation", "app", "key", "sync">> ELSE <<>>]
          /\ pc' = [pc EXCEPT ![1] = Done]
          /\ status' = "exit0"

LegacyNext ==
    \/ legacyValidatePropsAndFlags
    \/ legacyDestroy
    \/ legacyReuseOrCreateApiKey
    \/ legacyCreate
    \/ legacyCreateJwt
    \/ legacySigint

LegacySpec == LegacyInit /\ [][LegacyNext]_vars

\* ------------------------------------------------------------------ properties
IsPrefix(s, t) == Len(s) <= Len(t) /\ SubSeq(t, 1, Len(s)) = s

\* The resources of kind k whose label starts with the session's name, and
\* those labelled exactly with it.
SessionLabelled(k) == {r \in remote[k] : StartsWith(r.label, devPhoneName)}
SessionNamed(k) == {r \in remote[k] : r.label = devPhoneName}

\* A remote create call of provisioning has failed.
CreateFailed == \E i \in DOMAIN createLog : ~createLog[i].ok

\* C1: once provisioning has completed and a shutdown sequence has run to
\* completion with every remote call of the run succeeding, no remote
\* resource of any kind carries a label that starts with the session's name.
C1_ShutdownLeavesNothing ==
    (status = "exit0" /\ fails = 0 /\ signals = 1)
        => \A k \in Kinds : SessionLabelled(k) = {}

\* C2: teardown is entered at most once per process: a signal delivered
\* while an earlier signal's shutdown sequence is running starts no second
\* shutdown sequence.
C2_TeardownEnteredOnce ==
    Cardinality({h \in Handlers : pc[h] # Idle}) <= 1

\* C3: when a signal ends the process while provisioning is in progress, the
\* resources this run has already created are gone at process exit.
C3_SignalDuringProvisioningCleansUp ==
    status = "killed" => \A k \in Kinds : \A r \in remote[k] : r.sid < FirstSid

\* C4 (as claimed): a shutdown sequence unbinds the webhook first and then
\* destroys the resources in reverse order of creation: voice app, webhook
\* backend, conversation service, call-history store, credential.
C4_UnbindFirstReverseOrder ==
    \A h \in Handlers :
        IsPrefix(tdLog[h], <<"phone", "app", "function", "conversation", "sync", "key">>)

\* C4 (amended): a shutdown sequence sweeps conversation services, voice
\* apps, credentials, call-history stores and webhook backends in this
\* order, unbinds the webhook last, and the process exits with status 0 only
\* when one sequence has gone through all six steps.
C4_ShutdownOrder ==
    /\ \A h \in Handlers :
        IsPrefix(tdLog[h], <<"conversation", "app", "key", "sync", "function", "phone">>)
    /\ status = "exit0" =>
        \E h \in Handlers : pc[h] = Done /\ Len(tdLog[h]) = 6

\* A clean shutdown of a session bound to a number has completed.
C4_Witness ==
    /\ status = "exit0" /\ fails = 0
    /\ this.phoneNumber # None
    /\ phones[this.phoneNumber[1].phoneNumber] = NoHooks

\* The rank of a provisioning step in the order the claim gives, and in the
\* amended order.
ClaimedRank(step) ==
    CASE step = "key" -> 1 [] step = "sync" -> 2 [] step = "conversation" -> 3
      [] step = "function" -> 4 [] step = "app" -> 5 [] step = "bind" -> 6
AmendedRank(step) ==
    CASE step = "key" -> 1 [] step = "conversation" -> 2 [] step = "sync" -> 3
      [] step = "function" -> 4 [] step = "app" -> 5 [] step = "bind" -> 6

\* C5 (as claimed): the remote creates occur in the order credential,
\* call-history store, conversation service, webhook backend, voice app,
\* phone-number binding.
C5_ClaimedCreateOrder ==
    \A i, j \in DOMAIN createLog :
        i < j => ClaimedRank(createLog[i].step) <= ClaimedRank(createLog[j].step)

\* C5 (amended): the remote creates occur in the order credential,
\* conversation service, call-history store, webhook backend, voice app,
\* phone-number binding, and the webhook backend is deployed only after the
\* conversation and the call-history store have both been created.
C5_CreateOrder ==
    /\ \A i, j \in DOMAIN createLog :
        i < j => AmendedRank(createLog[i].step) <= AmendedRank(createLog[j].step)
    /\ \A i \in DOMAIN createLog :
        createLog[i].step = "function" =>
            /\ this.conversation # None /\ this.sync # None
            /\ \E j \in 1..(i - 1) : createLog[j].step = "conversation"
            /\ \E j \in 1..(i - 1) : createLog[j].step = "sync"
            /\ \A j \in 1..(i - 1) :
                createLog[j].step \in {"conversation", "sync"} => createLog[j].ok

\* Provisioning with a minted credential and a bound number has completed.
C5_Witness ==
    /\ pc[Run] = Serving
    /\ {createLog[i].step : i \in DOMAIN createLog}
        = {"key", "conversation", "sync", "function", "app", "bind"}

\* C6: for each kind there is at most one live remote resource labelled with
\* the session's name.
C6_AtMostOnePerKind ==
    \A k \in Kinds : Cardinality(SessionNamed(k)) <= 1

C8_FailedCreateIsLast ==
    \A i \in DOMAIN createLog : ~createLog[i].ok => i = Len(createLog)

\* C9: in the sweeps of a shutdown sequence every listed resource gets its
\* own remove attempt: one step of the loop takes at most one resource off
\* the list it has left (stated for a process that runs a single shutdown
\* sequence).
C9_EachRemovalAttempted ==
    [][\A h \in Handlers :
          (signals = 1 /\ pc[h].op = "remove")
              => Cardinality(pending'[h]) >= Cardinality(pending[h]) - 1]_vars

\* C10: a remote remove is issued for a resource whose label does not start
\* with the session's name only when the clear flag was given and the prompt
\* was confirmed.
C10_FamilySweepOnlyOnConfirmedClear ==
    \A label \in removeIssued :
        ~StartsWith(label, devPhoneName) => flags.clear /\ confirmed

\* A run without the clear flag has swept at startup and at shutdown, and the
\* other sessions' resources are still there.
C10_Witness ==
    /\ ~flags.clear /\ status = "exit0"
    /\ removeIssued # {}
    /\ \A k \in Kinds : \E r \in remote[k] :
          StartsWith(r.label, DP) /\ ~StartsWith(r.label, devPhoneName)

\* The resources of kind k that earlier dev-phone sessions left on the account.
EarlierSessions(k) == {r \in remote[k] : r.sid < FirstSid /\ StartsWith(r.label, DP)}

\* C11: when the clear flag was given and the prompt confirmed, and the run
\* has completed provisioning with every remote call succeeding, no resource
\* of any kind, credentials included, that an earlier session left is still
\* on the account.
C11_ClearRemovesEarlierSessions ==
    (pc[Run] = Serving /\ flags.clear /\ confirmed /\ fails = 0)
        => \A k \in Kinds : EarlierSessions(k) = {}

\* The number given by flag is on the account and had an SMS or voice webhook
\* URL when the command was started; the fields of it that were set.
FlagNumberConfigured ==
    /\ flags.phoneNumber # None
    /\ flags.phoneNumber[1] \in DOMAIN prior
    /\ isUrlSet(prior[flags.phoneNumber[1]].smsUrl)
        \/ isUrlSet(prior[flags.phoneNumber[1]].voiceUrl)
FieldsSet(n) ==
    (IF isUrlSet(prior[n].smsUrl) THEN {"SMS webhook URL"} ELSE {})
    \cup (IF isUrlSet(prior[n].voiceUrl) THEN {"Voice webhook URL"} ELSE {})

Configured(n) == isUrlSet(prior[n].smsUrl) \/ isUrlSet(prior[n].voiceUrl)
BoundToSession(n) ==
    \/ phones[n].smsUrl.domain = DeployedDomain
    \/ phones[n].voiceUrl.domain = DeployedDomain

\* C13: without the force flag (and without a confirmed family sweep, which
\* resets the numbers of earlier dev-phone sessions) a number that had an
\* SMS or voice webhook URL when the command was started keeps both URLs,
\* whatever numbers are chosen through /choose-phone-number.
C13_NoOverwriteWithoutForce ==
    (~flags.force /\ ~(flags.clear /\ confirmed)) =>
        \A n \in DOMAIN phones :
            Configured(n) =>
                /\ phones[n].smsUrl = prior[n].smsUrl
                /\ phones[n].voiceUrl = prior[n].voiceUrl

\* C14: when the lookup of a /choose-phone-number request returns no match
\* or more than one, the handler answers 400 "Phone number not found!" at
\* once (it goes on to no unbind and no bind) and the step changes neither
\* the numbers' webhooks nor the session's cached phoneNumber.
C14_NoSingleMatchLeavesBinding ==
    [][\A q \in Requests :
          (/\ http[q].route = "/choose-phone-number"
           /\ http[q].at = "list"
           /\ http'[q] # http[q]
           /\ fails' = fails
           /\ Cardinality(ListFiltered(http[q].body)) # 1)
          => /\ http'[q].at = "done"
             /\ http'[q].res = Response(400, "{message}", Some("Phone number not found!"))
             /\ phones' = phones
             /\ this' = this]_vars

\* A session bound to a number has answered 400 to a request for a number
\* that is not on the account, and is still bound.
C14_Witness ==
    \E q \in Requests :
        /\ http[q].body = Some("+1999")
        /\ http[q].res.form = "{message}"
        /\ this.phoneNumber # None
        /\ BoundToSession(this.phoneNumber[1].phoneNumber)

\* C15: at most one number of the account points at the backend of this
\* session.
C15_AtMostOneNumberBound ==
    Cardinality({n \in DOMAIN phones : BoundToSession(n)}) <= 1

\* The tokens issued so far: the one the session holds and those sent in
\* answers; the sids of the resources of kind k this run has created.
IssuedTokens ==
    (IF this.jwt = None THEN {} ELSE {this.jwt[1]})
    \cup {http[q].res.value[1] : q \in {o \in Requests : http[o].res.form = "{token}"}}
Created(k) == {r.sid : r \in {x \in remote[k] : x.sid >= FirstSid}}

GrantTargetAbsent ==
    \/ this.apikey \in {None, Some(NoSid)}
    \/ this.twimlApp \in {None, Some(0)}
    \/ this.conversation = None
    \/ this.sync = None

\* C17: with the credential or a grant target absent, createJwt throws and
\* no token is held: run() never gets past it; and no issued token carries
\* an empty credential or an empty grant target.
C17_NoTokenWithoutTargets ==
    /\ GrantTargetAbsent =>
          /\ this.jwt = None
          /\ pc[Run] \notin {P("bind", "-", "-"), Serving}
          /\ (status = "rejected" /\ pc[Run] = P("jwt", "-", "-")) => thrown = TypeError
    /\ \A t \in IssuedTokens :
          /\ t.key # NoSid
          /\ \A g \in t.grants : g.target # 0

\* The voice app could not be created and createJwt has thrown.
C17_Witness ==
    /\ status = "rejected" /\ thrown = TypeError
    /\ pc[Run] = P("jwt", "-", "-")
    /\ this.twimlApp = None /\ this.apikey # None
    /\ this.jwt = None

\* C18: a held token is never replaced, and every answer to GET
\* /client-token carries the token the session held when the request came.
C18_HeldTokenNeverChanges ==
    [][/\ this.jwt # None => this'.jwt = this.jwt
       /\ \A q \in Requests :
            (http[q] = NoRequest /\ http'[q].route = "/client-token")
                => /\ http'[q].res.form = "{token}"
                   /\ http'[q].res.value = this'.jwt
                   /\ this.jwt # None => http'[q].res.value = this.jwt]_vars

\* A request made a validity window after startup got the startup token.
C18_Witness ==
    \E q \in Requests :
        /\ http[q].res.form = "{token}"
        /\ http[q].res.value = this.jwt
        /\ http[q].res.value[1].iat = 0
        /\ now > 0

\* C19: the token in an answer to GET /client-token is unexpired when the
\* answer is sent.
C19_TokenInAnswerUnexpired ==
    [][\A q \in Requests :
          (http[q] = NoRequest /\ http'[q].res.form = "{token}")
              => now < http'[q].res.value[1].iat + http'[q].res.value[1].ttl]_vars

\* C20: a handler that fails answers with a body of the form {error} and
\* with the status of the error when it has one, else 400.
C20_ErrorResponses ==
    \A q \in Requests :
        (http[q].at = "done" /\ http[q].res.status # 200) =>
            /\ http[q].res.form = "{error}"
            /\ http[q].res.status = IF http[q].res.value[1].status # 0
                                    THEN http[q].res.value[1].status ELSE 400

\* C27: once a GET /phone-numbers has been answered with a listing, every
\* later GET /phone-numbers is answered in the step it arrives in, from the
\* cache: it waits for no remote list call.
C27_CachedAfterFirstSuccess ==
    [][\A q \in Requests :
          (/\ http[q] = NoRequest
           /\ http'[q].route = "/phone-numbers"
           /\ \E o \in Requests : /\ http[o].route = "/phone-numbers"
                                  /\ http[o].res.status = 200)
          => /\ http'[q].at = "done"
             /\ http'[q].res.status = 200]_vars

\* One of the three webhook fields of number n points at the backend of this
\* session.
PointsAtSession(n) ==
    \/ phones[n].smsUrl.domain = DeployedDomain
    \/ phones[n].voiceUrl.domain = DeployedDomain
    \/ phones[n].statusCallback.domain = DeployedDomain

\* C21: when the process has exited after a signal, with every remote call
\* of the run having succeeded, no number of the account has its SMS, voice
\* or status-callback webhook pointing at the backend of this session,
\* however the shutdown sequence and the /choose-phone-number requests
\* interleaved.
C21_NoNumberBoundAtExit ==
    (status = "exit0" /\ fails = 0) =>
        \A n \in DOMAIN phones : ~PointsAtSession(n)

\* C22: once a signal has started the shutdown sequence, no request that had
\* not arrived before is taken into a handler.
C22_NoRequestAcceptedWhileDraining ==
    [][signals > 0 =>
          \A q \in Requests : http[q] = NoRequest => http'[q] = NoRequest]_vars

\* The profile held an API key when the command was started (a minted key
\* has a sid the remote API handed out, from FirstSid on).
StartedWithApiKey == currentProfile.apiKey = <<"SK", 0>>

\* C23: when the profile's identifier starts with "SK" at startup,
\* reuseOrCreateApiKey returns the profile's credential in one step that
\* makes no remote call (it cannot fail and changes nothing remotely), and
\* in no step of the run is a remote list of the credentials issued, a
\* credential created or removed, or the profile changed.
C23_ProfileKeyReused ==
    [][StartedWithApiKey =>
          /\ (pc[Run] = P("provision", "key", "begin") /\ pc'[Run] # pc[Run]) =>
                /\ this'.apikey = Some(<<"SK", 0>>)
                /\ pc'[Run].kind # "key"
                /\ fails' = fails
                /\ remote' = remote
          /\ \A x \in listIssued' : x.kind # "key"
          /\ \A p \in Procs : ~(pc'[p].kind = "key" /\ pc'[p].op \in {"remove", "create"})
          /\ remote'["key"] = remote["key"]
          /\ \A i \in DOMAIN createLog' : createLog'[i].step # "key"
          /\ currentProfile' = currentProfile]_vars

\* A run started with the profile's API key has swept the family and shut
\* down, and the credentials of the earlier sessions are all still there.
C23_Witness ==
    /\ StartedWithApiKey /\ status = "exit0"
    /\ flags.clear /\ confirmed
    /\ this.apikey = Some(<<"SK", 0>>)
    /\ remote["key"] = PreRes
    /\ remote["conversation"] # PreRes

\* C24: the session name never changes, and every remote create call of a
\* credential, a conversation service, a conversation, a call-history store
\* or a voice app passes the session name as the label (of the create calls
\* of a completed provisioning exactly these pass a label, two of them in
\* createConversation); every resource of these kinds the run has created
\* carries exactly that label.
C24_LabelsAreSessionName ==
    [][/\ devPhoneName' = devPhoneName
       /\ \A i \in DOMAIN createLog' :
            /\ createLog'[i].step \in {"key", "app"} => createLog'[i].label = devPhoneName'
            /\ createLog'[i].label \in {NullLabel, devPhoneName'}
       /\ pc'[Run] = Serving =>
            \A step \in {"conversation", "sync", "app"} :
                Cardinality({i \in DOMAIN createLog' :
                                /\ createLog'[i].step = step
                                /\ createLog'[i].label = devPhoneName'})
                    = IF step = "conversation" THEN 2 ELSE 1
       /\ \A k \in {"key", "conversation", "sync", "app"} :
            \A r \in remote'[k] : r.sid >= FirstSid => r.label = devPhoneName']_vars

\* The server listens with a minted credential; each of the four kinds holds
\* a resource this run created.
C24_Witness ==
    /\ pc[Run] = Serving /\ signals = 0
    /\ \A k \in {"key", "conversation", "sync", "app"} :
          \E r \in remote[k] : r.sid >= FirstSid

\* C25: once a signal has been delivered to the installed handlers, the
\* process eventually exits with status 0.
C25_SignalLeadsToExit0 == (signals > 0) ~> (status = "exit0")

\* The process has exited with status 0 although the unbind of its number
\* failed: the number still points at the session's backend.
C25_Witness ==
    /\ status = "exit0" /\ fails = 1
    /\ this.phoneNumber # None
    /\ PointsAtSession(this.phoneNumber[1].phoneNumber)
    /\ \E h \in Handlers : pc[h] = Done /\ Len(tdLog[h]) = 6

\* C26: with the clear flag, while run() is at the prompt or in the family
\* sweep no remote create call of this run has been issued, the one that
\* mints the credential included; and no shutdown sequence exists before
\* the server listens.
C26_SweepBeforeAnyCreate ==
    /\ (flags.clear /\ pc[Run].stage \in {"confirm", "clear"}) => createLog = <<>>
    /\ pc[Run] # Serving => signals = 0 /\ \A h \in Handlers : pc[h] = Idle

\* C28: a remote create call for a conversation service, a call-history
\* store, a webhook backend or a voice app is issued only after the
\* provisioning step has issued the remote list of that kind.
C28_ListBeforeCreate ==
    \A i \in DOMAIN createLog :
        createLog[i].step \in {"conversation", "sync", "function", "app"} =>
            [stage |-> "provision", kind |-> createLog[i].step] \in listIssued

\* C29: a shutdown sequence starts no step twice, the step it is in is the
\* last one it has started, and a shutdown sequence that has ended has
\* started the sweep of each of the five kinds and the unbind, whichever of
\* its remote calls failed.
C29_FailuresSkipNoStep ==
    \A h \in Handlers :
        /\ \A i, j \in DOMAIN tdLog[h] : i # j => tdLog[h][i] # tdLog[h][j]
        /\ pc[h].stage = "shutdown" =>
              tdLog[h] # <<>> /\ tdLog[h][Len(tdLog[h])] = pc[h].kind
        /\ pc[h] = Done =>
              /\ Len(tdLog[h]) = 6
              /\ {tdLog[h][i] : i \in DOMAIN tdLog[h]} = Kinds \cup {"phone"}

\* A shutdown sequence has ended after its sweep of the conversation
\* services failed: the session's conversation service is still there, and
\* the sweeps of the other kinds have removed theirs.
C29_Witness ==
    /\ status = "exit0" /\ fails = 1
    /\ SessionNamed("conversation") # {}
    /\ SessionNamed("app") = {} /\ SessionNamed("sync") = {} /\ SessionNamed("function") = {}
    /\ \E h \in Handlers : pc[h] = Done /\ Len(tdLog[h]) = 6

\* This run has minted its credential.
Minted == \E i \in DOMAIN createLog : createLog[i].step = "key" /\ createLog[i].ok

\* C30: as long as every remote call of the run has succeeded, at most one
\* credential labelled with the session's name is live; and when the run
\* minted its credential and has exited after one shutdown sequence, that
\* sequence has listed the credentials and none labelled with the session's
\* name remains.
C30_MintedCredentialRemoved ==
    fails = 0 =>
        /\ Cardinality(SessionNamed("key")) <= 1
        /\ (Minted /\ status = "exit0" /\ signals = 1) =>
              /\ [stage |-> "shutdown", kind |-> "key"] \in listIssued
              /\ SessionNamed("key") = {}

\* C31: in the legacy command, when the process has exited after a SIGINT
\* received while the server listens, no conversation, TwiML app, API key or
\* sync service whose label starts with 'dev-phone' is left on the account.
C31_LegacySigintRemovesFamily ==
    (status = "exit0" /\ fails = 0) =>
        \A k \in {"conversation", "app", "key", "sync"} :
            \A r \in remote[k] : ~StartsWith(r.label, DP)

\* C32: unless the family sweep was asked for and confirmed, a remote remove
\* is issued only for resources labelled exactly with the name of this
\* session: a resource of a session with another name is left in place,
\* also when this session's name is a proper prefix of the other.
C32_SweepSparesOtherSessions ==
    ~(flags.clear /\ confirmed) =>
        \A label \in removeIssued : label = devPhoneName

\* C33: when run() has rejected with the error of validatePropsAndFlags (the
\* number is not on the account, or its configuration would be overwritten),
\* this run has issued no remote create, no remote remove and no update of a
\* number, and it has not begun to provision: the account's resources and
\* numbers are as they were, and no sweep has listed anything.
C33_RefusalBeforeAnyResource ==
    thrown.name = "TwilioCliError" =>
        /\ status = "rejected"
        /\ pc[Run] = P("validate", "-", "-")
        /\ createLog = <<>>
        /\ removeIssued = {} /\ listIssued = {}
        /\ nextSid = FirstSid
        /\ \A k \in Kinds : remote[k] \in {{}, PreRes}
        /\ phones = prior
        /\ this.apikey = constructor.apikey /\ this.jwt = None

\* Startup has been refused for a number that is not on an account that
\* holds numbers and the resources of earlier sessions.
C33_Witness ==
    /\ status = "rejected"
    /\ thrown = TwilioCliError("is not associated with your Twilio account", {})
    /\ flags.phoneNumber = Some("+1999")
    /\ DOMAIN phones # {}
    /\ remote["conversation"] = PreRes

\* C34: every listing sent in answer to GET /phone-numbers holds every
\* number of the account.
C34_CompleteListing ==
    \A q \in Requests :
        (http[q].route = "/phone-numbers" /\ http[q].res.status = 200) =>
            {r.phoneNumber : r \in http[q].res.value[1]} = DOMAIN phones

====
